---- MODULE Spec2Model ----
(***************************************************************************)
(* Model of AI-IQ.py: the survey scoring functions, the CSV persistence    *)
(* functions (load_data, save_response, delete_response) and the "Take     *)
(* Survey" tab of main().                                                  *)
(*                                                                         *)
(* Units.  Python floats are modelled by exact integers:                   *)
(*   - scores (dimension scores, AI_IQ) are in hundredths: 2.5 is 250;     *)
(*   - weights and the sums built from them are in halves: 1.5 is 3.       *)
(* A ratio of two sums is the same in halves as in units.                  *)
(***************************************************************************)
EXTENDS Integers, Sequences, FiniteSets, TLC

VARIABLES
    pc,                 \* position of the modelled run
    selected,           \* the labels selected for the questions of one dimension
    dim_score,          \* the value returned by calculate_weighted_score
    dimension_scores,   \* main(): dimension_scores, in configuration order
    ai_iq,              \* main(): ai_iq
    ai_iq_level,        \* main(): ai_iq_level
    name,               \* main(): name text input
    email,              \* main(): email text input
    store,              \* the file CSV_FILE
    clock,              \* datetime.now(), in seconds
    last,               \* history: the last persistence call and the load before it
    assigned,           \* history: the RespondentIDs assigned by save_response, in order
    sess,               \* concurrent sessions inside save_response
    lastWriter          \* history: the session whose to_csv ran last

vars == <<pc, selected, dim_score, dimension_scores, ai_iq, ai_iq_level,
          name, email, store, clock, last, assigned, sess, lastWriter>>

(***************************************************************************)
(* Bounds of the model                                                     *)
(***************************************************************************)
MaxAnswers == 3        \* longest answer list given to calculate_weighted_score
MaxLegacyRows == 2     \* rows of a store written before RespondentID existed
MaxOps == 4            \* persistence calls in one behaviour
NumDims == 2           \* dimensions configured in survey_questions (six in the source)
MaxSaves == 3          \* save_response calls started by the concurrent sessions

(***************************************************************************)
(* CONFIG & GLOBALS                                                        *)
(***************************************************************************)
SCALE_LABELS ==
    <<"Strongly Agree", "Agree", "Neutral", "Disagree", "Strongly Disagree">>

Labels == {SCALE_LABELS[i] : i \in 1..Len(SCALE_LABELS)}

SCALE_MAPPING ==
    ("Strongly Agree" :> 5) @@ ("Agree" :> 4) @@ ("Neutral" :> 3) @@
    ("Disagree" :> 2) @@ ("Strongly Disagree" :> 1)

\* A bug the weights could have: Neutral weighted 0.5 instead of 0.
WEIGHT_MAPPING_neutral_counts ==
    ("Strongly Agree" :> 3) @@ ("Agree" :> 2) @@ ("Neutral" :> 1) @@
    ("Disagree" :> -3) @@ ("Strongly Disagree" :> -6)

\* in halves: 1.5, 1, 0, -1.5, -3
WEIGHT_MAPPING ==
    ("Strongly Agree" :> 3) @@ ("Agree" :> 2) @@ ("Neutral" :> 0) @@
    ("Disagree" :> -3) @@ ("Strongly Disagree" :> -6)

\* every dimension of survey_questions has three questions
NumQuestions == 3

(***************************************************************************)
(* Python built-ins                                                        *)
(***************************************************************************)
abs(x) == IF x < 0 THEN -x ELSE x

Min2(a, b) == IF a < b THEN a ELSE b

\* A non-negative rational is a pair <<numerator, denominator>>, denominator > 0.
\* min(x, 5) and max(0, x) on a rational, in score units.
fmin5(x) == IF x[1] > 5 * x[2] THEN <<5, 1>> ELSE x

fmax0(x) == IF x[1] < 0 THEN <<0, 1>> ELSE x

\* A bug the rounding could have: truncation to two decimals.
round_2_trunc(x) == {(100 * x[1]) \div x[2]}

\* round(x, 2) of a float close to the rational x, in hundredths.  Away from a
\* tie the result is the nearest hundredth.  At an exact tie of the rational the
\* float carries a representation error of either sign, so either neighbour
\* can be returned.
round_2(x) ==
    LET num == 100 * x[1]
        q == num \div x[2]
        r == num % x[2]
    IN  IF 2 * r < x[2] THEN {q}
        ELSE IF 2 * r > x[2] THEN {q + 1}
        ELSE {q, q + 1}

(***************************************************************************)
(* CHART & SCORING LOGIC                                                   *)
(***************************************************************************)
\* the loop of calculate_weighted_score over the first n pairs of the zip
RECURSIVE positive_sum(_, _, _)
positive_sum(numeric_answers, selected_weights, n) ==
    IF n = 0 THEN 0
    ELSE LET a == numeric_answers[n]
             w == selected_weights[n]
         IN  positive_sum(numeric_answers, selected_weights, n - 1)
             + (IF w > 0 THEN a * w ELSE 0)

RECURSIVE negative_sum(_, _, _)
negative_sum(numeric_answers, selected_weights, n) ==
    IF n = 0 THEN 0
    ELSE LET a == numeric_answers[n]
             w == selected_weights[n]
         IN  negative_sum(numeric_answers, selected_weights, n - 1)
             + (IF w > 0 THEN 0 ELSE IF w < 0 THEN a * abs(w) ELSE 0)

\* The set of values the call can return (one value, except at a rounding tie).
calculate_weighted_score(numeric_answers, selected_weights) ==
    LET n == Min2(Len(numeric_answers), Len(selected_weights))
        p == positive_sum(numeric_answers, selected_weights, n)
        m == negative_sum(numeric_answers, selected_weights, n)
    IN  IF p + m = 0 THEN {250}
        ELSE LET dimension_score == <<5 * p, p + m>>
                 capped == fmax0(fmin5(dimension_score))
             IN  round_2(capped)

\* A bug the classification could have: strict comparisons.
determine_ai_iq_level_strict(ai_iq_score) ==
    IF ai_iq_score > 450 THEN "Level 5: Optimizing"
    ELSE IF ai_iq_score > 350 THEN "Level 4: Innovating"
    ELSE IF ai_iq_score > 250 THEN "Level 3: Managing"
    ELSE IF ai_iq_score > 150 THEN "Level 2: Emerging"
    ELSE "Level 1: Initial"

determine_ai_iq_level(ai_iq_score) ==
    IF ai_iq_score >= 450 THEN "Level 5: Optimizing"
    ELSE IF ai_iq_score >= 350 THEN "Level 4: Innovating"
    ELSE IF ai_iq_score >= 250 THEN "Level 3: Managing"
    ELSE IF ai_iq_score >= 150 THEN "Level 2: Emerging"
    ELSE "Level 1: Initial"

\* main(): numeric_value = SCALE_MAPPING[selected_label], for each question
NumericAnswers(labels) == [i \in 1..Len(labels) |-> SCALE_MAPPING[labels[i]]]

\* main(): weight = WEIGHT_MAPPING[selected_label], for each question
SelectedWeights(labels) == [i \in 1..Len(labels) |-> WEIGHT_MAPPING[labels[i]]]

(***************************************************************************)
(* DATA STORAGE FUNCTIONS                                                  *)
(*                                                                         *)
(* A file is [exists, columns, rows]; its rows hold the cells as written.  *)
(* A DataFrame is [columns, rows]; its rows hold the parsed values.  The   *)
(* <dim>_score columns are the field scores and the <dim>_text_response    *)
(* columns the field texts, both sequences in configuration order.         *)
(***************************************************************************)
\* A text (a str, or a cell of the file) is a sequence of characters.
Whitespace == {" ", "\t", "\n", "\r"}

\* str.lstrip() and str.strip()
RECURSIVE lstrip(_)
lstrip(s) ==
    IF s # <<>> /\ Head(s) \in Whitespace THEN lstrip(Tail(s)) ELSE s

\* A bug the check of the name could have: no strip before the test.
strip_none(s) == s

RECURSIVE strip(_)
strip(s) ==
    LET t == lstrip(s)
    IN  IF t # <<>> /\ t[Len(t)] \in Whitespace
        THEN strip(SubSeq(t, 1, Len(t) - 1))
        ELSE t

\* the float NaN of a DataFrame cell: not a text
NaN == <<"NaN">>

\* cells pd.read_csv parses as missing (part of its default na_values)
NA_VALUES ==
    {<<>>, <<"N", "A">>, <<"N", "a", "N">>, <<"n", "a", "n">>,
     <<"n", "u", "l", "l">>, <<"N", "o", "n", "e">>}

\* DataFrame.to_csv writes a missing value as the empty cell (na_rep = "")
to_csv_cell(v) == IF v = NaN THEN <<>> ELSE v

read_csv_cell(c) == IF c \in NA_VALUES THEN NaN ELSE c

\* the columns other than RespondentID hold text (name, email, the text
\* responses) or numbers; a number is written in decimal and parsed back
to_csv_row(r) ==
    [c \in DOMAIN r |->
        IF c \in {"name", "email"} THEN to_csv_cell(r[c])
        ELSE IF c = "texts" THEN [i \in DOMAIN r[c] |-> to_csv_cell(r[c][i])]
        ELSE r[c]]

read_csv_row(r) ==
    [c \in DOMAIN r |->
        IF c \in {"name", "email"} THEN read_csv_cell(r[c])
        ELSE IF c = "texts" THEN [i \in DOMAIN r[c] |-> read_csv_cell(r[c][i])]
        ELSE r[c]]

\* df.to_csv(csv_file, index=False): the whole file is replaced
to_csv(df) ==
    [exists |-> TRUE,
     columns |-> df.columns,
     rows |-> [i \in 1..Len(df.rows) |-> to_csv_row(df.rows[i])]]

\* pd.read_csv(csv_file)
read_csv(file) ==
    [columns |-> file.columns,
     rows |-> [i \in 1..Len(file.rows) |-> read_csv_row(file.rows[i])]]

\* the columns load_data gives a DataFrame when no file exists
AllColumns == {"RespondentID", "name", "email", "timestamp", "AI_IQ", "scores", "texts"}

\* df.reset_index(inplace=True); df.rename(columns={'index': 'RespondentID'}):
\* the 0-based row position becomes the identifier
reset_index(df) ==
    [columns |-> df.columns \cup {"RespondentID"},
     rows |-> [i \in 1..Len(df.rows) |-> ("RespondentID" :> (i - 1)) @@ df.rows[i]]]

load_data(file) ==
    IF file.exists
    THEN LET df == read_csv(file)
         IN  IF "RespondentID" \notin df.columns THEN reset_index(df) ELSE df
    ELSE [columns |-> AllColumns, rows |-> <<>>]

\* A bug the maximum could have: the identifier of the first row.
max_id_first(rows, n) == rows[1].RespondentID

\* df['RespondentID'].max() of a frame with at least one row
RECURSIVE max_id(_, _)
max_id(rows, n) ==
    IF n = 1 THEN rows[1].RespondentID
    ELSE LET m == max_id(rows, n - 1)
         IN  IF rows[n].RespondentID > m THEN rows[n].RespondentID ELSE m

\* A bug the identifier assignment could have: the number of rows plus one.
new_id_by_count(df) ==
    IF "RespondentID" \in df.columns /\ df.rows # <<>>
    THEN Len(df.rows) + 1
    ELSE 1

\* save_response: "Assign a unique RespondentID"
new_id(df) ==
    IF "RespondentID" \in df.columns /\ df.rows # <<>>
    THEN max_id(df.rows, Len(df.rows)) + 1
    ELSE 1

\* save_response: row_dict, with the identifier
row_dict(nm, em, scores, texts, iq, now, id) ==
    [RespondentID |-> id, name |-> nm, email |-> em, timestamp |-> now,
     AI_IQ |-> iq, scores |-> scores, texts |-> texts]

\* pd.concat([df, new_df], ignore_index=True)
concat(df, row) ==
    [columns |-> df.columns \cup DOMAIN row, rows |-> Append(df.rows, row)]

\* A bug the write could have: appending the row to the file as it is now.
write_back_append(file, df, row) == to_csv(concat(load_data(file), row))

\* df = pd.concat([df, new_df]); df.to_csv(csv_file): the file is replaced by
\* the frame loaded at the start of the call plus the new row
write_back(file, df, row) == to_csv(concat(df, row))

save_response(nm, em, scores, texts, iq, file, now) ==
    LET df == load_data(file)
    IN  write_back(file, df, row_dict(nm, em, scores, texts, iq, now, new_id(df)))

\* df[df["RespondentID"] != respondent_id]
RECURSIVE filter_id(_, _)
filter_id(rows, respondent_id) ==
    IF rows = <<>> THEN <<>>
    ELSE IF Head(rows).RespondentID # respondent_id
         THEN <<Head(rows)>> \o filter_id(Tail(rows), respondent_id)
         ELSE filter_id(Tail(rows), respondent_id)

\* A bug delete could have: writing the remainder without the identifiers,
\* so that the next load numbers the rows again by position.
delete_response_renumber(respondent_id, file) ==
    LET df == load_data(file)
        kept == filter_id(df.rows, respondent_id)
    IN  to_csv([columns |-> df.columns \ {"RespondentID"},
                rows |-> [i \in 1..Len(kept) |->
                            [c \in DOMAIN kept[i] \ {"RespondentID"} |-> kept[i][c]]]])

delete_response(respondent_id, file) ==
    LET df == load_data(file)
    IN  IF "RespondentID" \in df.columns
        THEN to_csv([columns |-> df.columns, rows |-> filter_id(df.rows, respondent_id)])
        ELSE file

(***************************************************************************)
(* State shared by the specifications                                      *)
(***************************************************************************)
\* no file CSV_FILE on disk
NoFile == [exists |-> FALSE, columns |-> {}, rows |-> <<>>]

Sessions == {1, 2}

NoCall == [op |-> "none", arg |-> 0, before |-> <<>>]

IdleSession == [pc |-> "idle", df |-> [columns |-> {}, rows |-> <<>>], row |-> <<>>]

\* the parts of the state a specification does not use
ScoreIdle == selected = <<>> /\ dim_score = -1

SurveyIdle ==
    /\ dimension_scores = <<>>
    /\ ai_iq = -1
    /\ ai_iq_level = ""
    /\ name = <<>>
    /\ email = <<>>

StoreIdle ==
    /\ store = NoFile
    /\ clock = 0
    /\ last = NoCall
    /\ assigned = <<>>

ConcIdle ==
    /\ sess = [s \in Sessions |-> IdleSession]
    /\ lastWriter = 0

(***************************************************************************)
(* SpecScore: calculate_weighted_score applied to the answers of one       *)
(* dimension, as main() builds them from the selected labels.              *)
(***************************************************************************)
InitScore ==
    /\ pc = "call"
    /\ selected \in UNION {[1..n -> Labels] : n \in 0..MaxAnswers}
    /\ dim_score = -1
    /\ SurveyIdle /\ StoreIdle /\ ConcIdle

Score ==
    /\ pc = "call"
    /\ \E r \in calculate_weighted_score(NumericAnswers(selected), SelectedWeights(selected)) :
            dim_score' = r
    /\ pc' = "returned"
    /\ UNCHANGED <<selected, dimension_scores, ai_iq, ai_iq_level, name, email,
                   store, clock, last, assigned, sess, lastWriter>>

NextScore == Score

SpecScore == InitScore /\ [][NextScore]_vars

(***************************************************************************)
(* SpecLevel: determine_ai_iq_level applied to each score of the scale     *)
(***************************************************************************)
\* the top of the scale, in hundredths: scores are capped at 5
MaxScore == 500

InitLevel ==
    /\ pc = "call"
    /\ ai_iq \in 0..MaxScore
    /\ ai_iq_level = ""
    /\ dimension_scores = <<>> /\ name = <<>> /\ email = <<>>
    /\ ScoreIdle /\ StoreIdle /\ ConcIdle

Classify ==
    /\ pc = "call"
    /\ ai_iq_level' = determine_ai_iq_level(ai_iq)
    /\ pc' = "returned"
    /\ UNCHANGED <<selected, dim_score, dimension_scores, ai_iq, name, email,
                   store, clock, last, assigned, sess, lastWriter>>

NextLevel == Classify

SpecLevel == InitLevel /\ [][NextLevel]_vars

(***************************************************************************)
(* SpecStore: single-threaded calls of save_response and delete_response   *)
(* on a store that is absent or was written before RespondentID existed.   *)
(***************************************************************************)
Names == {<<"a", "n", "n">>, <<"b", "o", "b">>}

Texts == {<<>>, <<"o", "k">>}

AnEmail == <<"a", "@", "x">>

\* a dimension score of each legacy row (2.5, 5.0, 0.0, ...)
LegacyScore(i) == IF i = 1 THEN 250 ELSE IF i = 2 THEN 500 ELSE 0

\* row i of a file written by the version without RespondentID
LegacyRow(i) ==
    [name |-> <<"o", "l", "d">>, email |-> <<"o", "@", "x">>, timestamp |-> 0, AI_IQ |-> LegacyScore(i),
     scores |-> [d \in 1..NumDims |-> LegacyScore(i)],
     texts |-> [d \in 1..NumDims |-> <<>>]]

LegacyFile(k) ==
    [exists |-> TRUE,
     columns |-> AllColumns \ {"RespondentID"},
     rows |-> [i \in 1..k |-> LegacyRow(i)]]

InitialStores == {NoFile} \cup {LegacyFile(k) : k \in 0..MaxLegacyRows}

\* the identifiers a delete is asked for
MaxId == MaxLegacyRows + MaxOps

InitStore ==
    /\ pc = "idle"
    /\ store \in InitialStores
    /\ clock = 0
    /\ last = NoCall
    /\ assigned = <<>>
    /\ ScoreIdle /\ SurveyIdle /\ ConcIdle

SaveResponse ==
    /\ clock < MaxOps
    /\ \E nm \in Names, t \in Texts :
        LET file == save_response(nm, AnEmail, [d \in 1..NumDims |-> 250],
                                  [d \in 1..NumDims |-> t], 250, store, clock)
        IN  /\ store' = file
            /\ last' = [op |-> "save", arg |-> 0, before |-> load_data(store).rows]
            /\ assigned' = Append(assigned, file.rows[Len(file.rows)].RespondentID)
    /\ clock' = clock + 1
    /\ UNCHANGED <<pc, selected, dim_score, dimension_scores, ai_iq, ai_iq_level,
                   name, email, sess, lastWriter>>

DeleteResponse ==
    /\ clock < MaxOps
    /\ \E respondent_id \in 0..MaxId :
        /\ store' = delete_response(respondent_id, store)
        /\ last' = [op |-> "delete", arg |-> respondent_id, before |-> load_data(store).rows]
    /\ clock' = clock + 1
    /\ UNCHANGED <<pc, selected, dim_score, dimension_scores, ai_iq, ai_iq_level,
                   name, email, assigned, sess, lastWriter>>

NextStore == SaveResponse \/ DeleteResponse

SpecStore == InitStore /\ [][NextStore]_vars

(***************************************************************************)
(* Claims about the persistence functions (SpecStore)                      *)
(***************************************************************************)
\* what load_data returns now
Loaded == load_data(store).rows

IdsOf(rows) == {rows[i].RespondentID : i \in 1..Len(rows)}

MaxOf(S) == CHOOSE m \in S : \A x \in S : x <= m

\* C1: save_response followed by load_data returns the sequence loaded before
\* the call, unchanged and in order, extended by exactly one Submission whose
\* RespondentID is 1 + the largest identifier loaded before, or 1 if nothing
\* was loaded (store absent or without rows).
C1_AppendThenLoad ==
    last.op = "save" =>
        /\ Len(Loaded) = Len(last.before) + 1
        /\ SubSeq(Loaded, 1, Len(last.before)) = last.before
        /\ Loaded[Len(Loaded)].RespondentID =
              (IF last.before = <<>> THEN 1 ELSE 1 + MaxOf(IdsOf(last.before)))

\* a save on a store whose largest identifier is not its number of rows
C1_Witness ==
    /\ last.op = "save"
    /\ Len(last.before) >= 2
    /\ MaxOf(IdsOf(last.before)) # Len(last.before)
    /\ Loaded[Len(Loaded)].RespondentID = 1 + MaxOf(IdsOf(last.before))

\* C2: delete_response(id) followed by load_data returns the sequence loaded
\* before the call without the Submissions whose RespondentID is id, the others
\* unchanged and in order; when no loaded Submission has that identifier
\* (also when no store exists) the loaded sequence is the same as before.
C2_DeleteThenLoad ==
    last.op = "delete" =>
        /\ Loaded = SelectSeq(last.before, LAMBDA r : r.RespondentID # last.arg)
        /\ \A i \in 1..Len(Loaded) : Loaded[i].RespondentID # last.arg
        /\ (last.arg \notin IdsOf(last.before) => Loaded = last.before)

\* a delete that removed a row that was not the last one
C2_Witness ==
    /\ last.op = "delete"
    /\ Len(last.before) >= 2
    /\ last.before[1].RespondentID = last.arg
    /\ Len(Loaded) = Len(last.before) - 1

\* C3: no two Submissions returned by load_data have the same RespondentID,
\* from an absent store, a store without rows or a legacy store, after any
\* sequence of save_response and delete_response calls.
C3_UniqueIds ==
    \A i, j \in 1..Len(Loaded) :
        i # j => Loaded[i].RespondentID # Loaded[j].RespondentID

\* a legacy store after a delete and two saves
C3_Witness ==
    /\ last.op = "save"
    /\ Len(assigned) >= 2
    /\ Len(Loaded) >= 3
    /\ 0 \in IdsOf(Loaded)
    /\ clock > Len(assigned)

\* C4 (as claimed): the RespondentID assigned by each save_response is greater
\* than every RespondentID assigned by an earlier save_response.
C4_MonotonicAssignment ==
    \A i, j \in 1..Len(assigned) : i < j => assigned[i] < assigned[j]

(***************************************************************************)
(* Claims about the scoring functions (SpecScore, SpecLevel)               *)
(***************************************************************************)
\* the sum of f over the finite set S
RECURSIVE SumOver(_, _)
SumOver(f, S) ==
    IF S = {} THEN 0
    ELSE LET x == CHOOSE y \in S : TRUE
         IN  f[x] + SumOver(f, S \ {x})

\* value * weight over the answers with a positive weight, in halves
PositiveSum(labels) ==
    SumOver([i \in DOMAIN labels |-> SCALE_MAPPING[labels[i]] * WEIGHT_MAPPING[labels[i]]],
            {i \in DOMAIN labels : WEIGHT_MAPPING[labels[i]] > 0})

\* value * |weight| over the answers with a negative weight, in halves
NegativeSum(labels) ==
    SumOver([i \in DOMAIN labels |-> SCALE_MAPPING[labels[i]] * (0 - WEIGHT_MAPPING[labels[i]])],
            {i \in DOMAIN labels : WEIGHT_MAPPING[labels[i]] < 0})

\* r hundredths is num/den rounded to two decimals: within half a hundredth
Rounded2(r, num, den) ==
    /\ 2 * (r * den - 100 * num) <= den
    /\ 2 * (100 * num - r * den) <= den

\* C5 (as claimed): calculate_weighted_score called with an empty answer list
\* fails with an error and never returns a score.
C5_EmptyAnswersRejected ==
    (selected = <<>> /\ pc # "call") => (pc = "raised" /\ dim_score = -1)

\* C6: for every combination of ScaleChoices of a dimension the returned score
\* is 2.5 when positive_sum + negative_sum = 0 (in particular when every answer
\* is Neutral), and otherwise positive_sum / (positive_sum + negative_sum) * 5
\* clamped to [0,5] and rounded to 2 decimals; it lies in [0,5]; Strongly
\* Agree, Agree, Strongly Agree gives 5.0 and Disagree, Strongly Disagree,
\* Neutral gives 0.0.
C6_WeightedScore ==
    pc = "returned" =>
        LET p == PositiveSum(selected)
            m == NegativeSum(selected)
        IN  /\ (p + m = 0 => dim_score = 250)
            /\ ((\A i \in DOMAIN selected : selected[i] = "Neutral") => dim_score = 250)
            /\ (p + m # 0 =>
                    /\ 5 * p <= 5 * (p + m)
                    /\ Rounded2(dim_score, 5 * p, p + m))
            /\ dim_score >= 0 /\ dim_score <= 500
            /\ (selected = <<"Strongly Agree", "Agree", "Strongly Agree">> => dim_score = 500)
            /\ (selected = <<"Disagree", "Strongly Disagree", "Neutral">> => dim_score = 0)

\* three answers whose ratio needs rounding up: 8 / 14 * 5 = 2.857...
C6_Witness ==
    /\ pc = "returned"
    /\ selected = <<"Agree", "Strongly Disagree", "Neutral">>
    /\ dim_score = 286

LevelNames ==
    {"Level 5: Optimizing", "Level 4: Innovating", "Level 3: Managing",
     "Level 2: Emerging", "Level 1: Initial"}

\* C7: determine_ai_iq_level maps every score of [0,5] to exactly one level,
\* with lower-inclusive boundaries at 4.5, 3.5, 2.5 and 1.5.
C7_LevelTable ==
    pc = "returned" =>
        /\ ai_iq_level \in LevelNames
        /\ (ai_iq_level = "Level 5: Optimizing" <=> ai_iq >= 450)
        /\ (ai_iq_level = "Level 4: Innovating" <=> (350 <= ai_iq /\ ai_iq < 450))
        /\ (ai_iq_level = "Level 3: Managing" <=> (250 <= ai_iq /\ ai_iq < 350))
        /\ (ai_iq_level = "Level 2: Emerging" <=> (150 <= ai_iq /\ ai_iq < 250))
        /\ (ai_iq_level = "Level 1: Initial" <=> ai_iq < 150)

\* a score exactly on a boundary is classified into the upper level
C7_Witness ==
    /\ pc = "returned"
    /\ ai_iq = 350
    /\ ai_iq_level = "Level 4: Innovating"

(***************************************************************************)
(* SpecSurvey: one run of the "Take Survey" tab of main() over a store     *)
(* that is absent or legacy: the loop over the dimensions, then the button *)
(* "Calculate AI IQ & Submit".                                             *)
(***************************************************************************)
NameInputs == {<<>>, <<" ", "\t">>, <<" ", "a", "n", "n">>}

EmailInputs == {<<>>, <<" ">>, AnEmail}

\* sum(all_scores)
RECURSIVE sum(_)
sum(all_scores) ==
    IF all_scores = <<>> THEN 0 ELSE Head(all_scores) + sum(Tail(all_scores))

\* A bug the composite could have: the sum is rounded, not the mean.
composite_total(all_scores) == round_2(<<sum(all_scores), 100>>)

\* round(sum(all_scores) / len(all_scores), 2): the values it can return
composite(all_scores) == round_2(<<sum(all_scores), 100 * Len(all_scores)>>)

\* A bug the condition of the save could have: one of the two is enough.
should_save_either(nm, em) == strip(nm) # <<>> \/ strip(em) # <<>>

\* if name.strip() and email.strip()
should_save(nm, em) == strip(nm) # <<>> /\ strip(em) # <<>>

InitSurvey ==
    /\ pc = "form"
    /\ dimension_scores = <<>>
    /\ ai_iq = -1
    /\ ai_iq_level = ""
    /\ name = <<>>
    /\ email = <<>>
    /\ store \in InitialStores
    /\ clock = 0
    /\ last = NoCall
    /\ assigned = <<>>
    /\ ScoreIdle /\ ConcIdle

\* one iteration of the loop over survey_questions: the radios of the
\* dimension are read and its score is stored
AnswerDimension ==
    /\ pc = "form"
    /\ Len(dimension_scores) < NumDims
    /\ \E labels \in [1..NumQuestions -> Labels] :
        \E dim_score_ \in calculate_weighted_score(NumericAnswers(labels), SelectedWeights(labels)) :
            dimension_scores' = Append(dimension_scores, dim_score_)
    /\ UNCHANGED <<pc, selected, dim_score, ai_iq, ai_iq_level, name, email,
                   store, clock, last, assigned, sess, lastWriter>>

\* the button, once the loop has run over every dimension
Submit ==
    /\ pc = "form"
    /\ Len(dimension_scores) = NumDims
    /\ \E nm \in NameInputs, em \in EmailInputs, t \in Texts, iq \in composite(dimension_scores) :
        /\ name' = nm
        /\ email' = em
        /\ ai_iq' = iq
        /\ ai_iq_level' = determine_ai_iq_level(iq)
        /\ IF should_save(nm, em)
           THEN LET file == save_response(nm, em, dimension_scores,
                                          [d \in 1..NumDims |-> t], iq, store, clock)
                IN  /\ store' = file
                    /\ last' = [op |-> "save", arg |-> 0, before |-> load_data(store).rows]
                    /\ assigned' = Append(assigned, file.rows[Len(file.rows)].RespondentID)
                    /\ clock' = clock + 1
           ELSE UNCHANGED <<store, last, assigned, clock>>
    /\ pc' = "shown"
    /\ UNCHANGED <<selected, dim_score, dimension_scores, sess, lastWriter>>

NextSurvey == AnswerDimension \/ Submit

SpecSurvey == InitSurvey /\ [][NextSurvey]_vars

(***************************************************************************)
(* Claims about the survey run (SpecSurvey)                                *)
(***************************************************************************)
\* C8: on submit, ai_iq is the arithmetic mean of the dimension scores of all
\* configured dimensions rounded to 2 decimals, and it lies in [0,5].
C8_CompositeMean ==
    pc = "shown" =>
        /\ Len(dimension_scores) = NumDims
        /\ Rounded2(ai_iq,
                    SumOver(dimension_scores, DOMAIN dimension_scores),
                    100 * NumDims)
        /\ ai_iq >= 0 /\ ai_iq <= 500

\* a submit whose dimension scores differ and whose mean needed rounding
C8_Witness ==
    /\ pc = "shown"
    /\ \E d \in DOMAIN dimension_scores : dimension_scores[d] # dimension_scores[1]
    /\ ai_iq * NumDims > SumOver(dimension_scores, DOMAIN dimension_scores)

\* a text that is empty or holds only whitespace
IsBlank(s) == \A i \in 1..Len(s) : s[i] \in Whitespace

\* C9: a submit with a blank name or a blank email still computes and shows
\* the score and the level but leaves the store unchanged and consumes no
\* identifier; a row is appended only when both are non-blank (and then it is).
C9_BlankSubmitKeepsStore ==
    [][(pc = "form" /\ pc' = "shown") =>
          /\ ai_iq' \in 0..500
          /\ ai_iq_level' \in LevelNames
          /\ ((IsBlank(name') \/ IsBlank(email')) =>
                  (store' = store /\ assigned' = assigned))
          /\ (~(IsBlank(name') \/ IsBlank(email')) =>
                  /\ Len(load_data(store').rows) = Len(load_data(store).rows) + 1
                  /\ Len(assigned') = Len(assigned) + 1)]_vars

\* results shown for a whitespace-only name with an email, over a legacy
\* store that still holds its rows without identifiers
C9_Witness ==
    /\ pc = "shown"
    /\ name # <<>> /\ IsBlank(name)
    /\ ~IsBlank(email)
    /\ ai_iq_level \in LevelNames
    /\ store.exists /\ "RespondentID" \notin store.columns /\ Len(store.rows) >= 1
    /\ assigned = <<>>

(***************************************************************************)
(* SpecConc: two sessions call save_response with no lock.  The call       *)
(* touches the file twice: load_data reads it, to_csv replaces it; what    *)
(* lies between works on the frame the session loaded.                     *)
(***************************************************************************)
InitConc ==
    /\ pc = "idle"
    /\ store \in InitialStores
    /\ clock = 0
    /\ last = NoCall
    /\ assigned = <<>>
    /\ sess = [s \in Sessions |-> IdleSession]
    /\ lastWriter = 0
    /\ ScoreIdle /\ SurveyIdle

\* df = load_data(csv_file), then row_dict and new_id from that frame
SaveLoad(s) ==
    /\ sess[s].pc = "idle"
    /\ clock < MaxSaves
    /\ \E nm \in Names :
        LET df == load_data(store)
            row == row_dict(nm, AnEmail, [d \in 1..NumDims |-> 250],
                            [d \in 1..NumDims |-> <<>>], 250, clock, new_id(df))
        IN  sess' = [sess EXCEPT ![s] = [pc |-> "loaded", df |-> df, row |-> row]]
    /\ clock' = clock + 1
    /\ UNCHANGED <<pc, selected, dim_score, dimension_scores, ai_iq, ai_iq_level,
                   name, email, store, last, assigned, lastWriter>>

\* df = pd.concat([df, new_df]); df.to_csv(csv_file)
SaveWrite(s) ==
    /\ sess[s].pc = "loaded"
    /\ store' = write_back(store, sess[s].df, sess[s].row)
    /\ sess' = [sess EXCEPT ![s].pc = "done"]
    /\ assigned' = Append(assigned, sess[s].row.RespondentID)
    /\ lastWriter' = s
    /\ UNCHANGED <<pc, selected, dim_score, dimension_scores, ai_iq, ai_iq_level,
                   name, email, clock, last>>

\* the call has returned; the session can submit again
SaveReturn(s) ==
    /\ sess[s].pc = "done"
    /\ clock < MaxSaves
    /\ sess' = [sess EXCEPT ![s] = IdleSession]
    /\ UNCHANGED <<pc, selected, dim_score, dimension_scores, ai_iq, ai_iq_level,
                   name, email, store, clock, last, assigned, lastWriter>>

NextConc == \E s \in Sessions : SaveLoad(s) \/ SaveWrite(s) \/ SaveReturn(s)

SpecConc == InitConc /\ [][NextConc]_vars

(***************************************************************************)
(* Claim about concurrent saves (SpecConc)                                 *)
(***************************************************************************)
\* C10: when two save_response calls have both loaded the same frame (each
\* loaded before the other wrote) and both have written, they have assigned
\* the same RespondentID and the store holds the loaded rows plus only the row
\* of the session that wrote last: the other row is lost.
C10_LostUpdate ==
    (sess[1].pc = "done" /\ sess[2].pc = "done" /\ sess[1].df = sess[2].df) =>
        /\ sess[1].row.RespondentID = sess[2].row.RespondentID
        /\ Len(Loaded) = Len(sess[1].df.rows) + 1
        /\ Loaded = Append(sess[lastWriter].df.rows,
                           read_csv_row(to_csv_row(sess[lastWriter].row)))

\* two sessions submitted different rows from the same loaded frame; both
\* were given the same identifier and the first writer's row is gone
C10_Witness ==
    /\ sess[1].pc = "done" /\ sess[2].pc = "done"
    /\ sess[1].df = sess[2].df
    /\ sess[1].row.name # sess[2].row.name
    /\ sess[1].row.RespondentID = sess[2].row.RespondentID
    /\ lastWriter = 2
    /\ \A i \in 1..Len(Loaded) : Loaded[i].name # sess[1].row.name
    /\ Len(assigned) = 2 /\ assigned[1] = assigned[2]

(***************************************************************************)
(* Claim about the saturation of the weighted score (SpecScore)            *)
(***************************************************************************)
AgreeLabels == {"Agree", "Strongly Agree"}

DisagreeLabels == {"Disagree", "Strongly Disagree"}

HasLabelIn(labels, S) == \E i \in DOMAIN labels : labels[i] \in S

\* C11: for every non-empty answer list, at least one Agree or Strongly Agree
\* and no Disagree or Strongly Disagree gives exactly 5.0, and at least one
\* Disagree or Strongly Disagree and no Agree or Strongly Agree gives exactly
\* 0.0, however many Neutral answers accompany them.
C11_Saturation ==
    (pc = "returned" /\ selected # <<>>) =>
        /\ ((HasLabelIn(selected, AgreeLabels) /\ ~HasLabelIn(selected, DisagreeLabels))
                => dim_score = 500)
        /\ ((HasLabelIn(selected, DisagreeLabels) /\ ~HasLabelIn(selected, AgreeLabels))
                => dim_score = 0)

\* one Disagree among Neutral answers is scored 0.0
C11_Witness ==
    /\ pc = "returned"
    /\ selected = <<"Neutral", "Disagree", "Neutral">>
    /\ dim_score = 0

====
